---- MODULE Spec2Model ----
(***************************************************************************)
(* Model of the multipart parsing core of ServerKit                        *)
(* (packages/multipart): BusboyWrapper (busboy.wrapper.ts), the event      *)
(* adapter that turns the tokenizer's events into a ResultSet and settles  *)
(* the promise returned by parse().                                        *)
(*                                                                         *)
(* The tokenizer (the Busboy base class), the request stream and the       *)
(* caller-supplied file handler are the environment: the tokenizer emits   *)
(* events once the request is piped into it, each handler invocation       *)
(* completes (or not) at a moment of its own choosing.                     *)
(***************************************************************************)
EXTENDS Integers, Sequences, FiniteSets, TLC

\* ------------------------------------------------------------------ bounds
\* Number of events the tokenizer emits in one run.
MaxEvents == 3
\* Number of file-handler invocations in one run.
MaxFiles == 2
\* Number of parse() calls on one MultipartBody.
MaxParseCalls == 2

\* ------------------------------------------------------------- input sets
Names == {"a", "b"}
\* Arguments of a field event: <<value, nameTruncated, valueTruncated>>, a
\* field with a truncated name and one with a truncated value.
FieldArgs == { <<"v1", TRUE, FALSE>>, <<"v2", FALSE, TRUE>> }
\* Errors a file handler may reject with; Falsy stands for a rejection whose
\* reason is undefined/null (Promise.reject()).
Falsy == [kind |-> "undefined"]
HandlerErrors == {[kind |-> "Error", message |-> "disk full"],
                  [kind |-> "Error", message |-> "io"]}
\* Errors the tokenizer may emit with 'error'.
TokenizerErrors == {[kind |-> "Error", message |-> "Parse error"]}

\* ---------------------------------------------------------------- errors
\* httpError(statusCode): a new HttpError without details.
httpError(statusCode) == [kind |-> "HttpError", statusCode |-> statusCode]

\* HttpError.withInternalDetails: sets internalDetails, returns the error.
withInternalDetails(e, details) ==
    [f \in DOMAIN e \cup {"internalDetails"} |->
        IF f = "internalDetails" THEN details ELSE e[f]]

\* The three errors built by the limit handlers.
PartsLimitError == withInternalDetails(httpError(413), [reason |-> "Reached parts limit"])
FilesLimitErrorCopied == PartsLimitError
FilesLimitError == withInternalDetails(httpError(413), [reason |-> "Reached files limit"])
FieldsLimitError == withInternalDetails(httpError(413), [reason |-> "Reached fields limit"])

\* JavaScript truthiness of the argument of onEnd (`if (err)`).
truthy(err) == err.kind # "undefined"

\* ------------------------------------------------------------- listeners
\* A listener is the pair <<event, function>>; removeListener removes a pair
\* only when that very function was registered for that event.
TokenizerListeners ==
    { <<"field", "onField">>, <<"file", "onFile">>, <<"finish", "onEnd">>,
      <<"error", "onEnd">>, <<"partsLimit", "onPartsLimit">>,
      <<"filesLimit", "onFilesLimit">>, <<"fieldsLimit", "onFieldsLimit">> }

\* The constructor registers the arrow function `() => this.cleanup` for
\* 'close' on the request.
RequestListeners == { <<"close", "arrow">> }

\* What cleanup() asks the request to remove: `this.cleanup` itself.
CleanupRequestRemovals == { <<"close", "cleanup">> }

\* --------------------------------------------------------------- the Map
EmptyMap == [n \in {} |-> 0]

Put(m, k, v) == [x \in DOMAIN m \cup {k} |-> IF x = k THEN v ELSE m[x]]

\* An entry of the Map is a bare Part (isArray FALSE, one item) or an array.
Bare(data) == [isArray |-> FALSE, items |-> <<data>>]

\* setData wrapping a first occurrence in a one-element list.
setDataAlwaysList(m, name, data) ==
    IF name \notin DOMAIN m
    THEN Put(m, name, [isArray |-> TRUE, items |-> <<data>>])
    ELSE Put(m, name, [isArray |-> TRUE, items |-> Append(m[name].items, data)])

setData(m, name, data) ==
    IF name \notin DOMAIN m
    THEN Put(m, name, Bare(data))
    ELSE IF m[name].isArray
         THEN Put(m, name, [isArray |-> TRUE, items |-> Append(m[name].items, data)])
         ELSE Put(m, name, [isArray |-> TRUE, items |-> <<m[name].items[1], data>>])

\* Parts as the handlers build them.
FieldPart(ev) ==
    [value |-> ev.value, nameTruncated |-> ev.nameTruncated,
     valueTruncated |-> ev.valueTruncated, encoding |-> ev.encoding,
     mimeType |-> ev.mimeType]

FilePart(ev) ==
    [stream |-> ev.stream, filename |-> ev.filename,
     encoding |-> ev.encoding, mimeType |-> ev.mimeType]

\* ---------------------------------------------------------------- limits
\* A MultipartLimits record is a function from the keys it specifies to
\* their values. Undefined is an absent argument, UndefinedValue the value of
\* a key that is specified as undefined.
Undefined == [undefined |-> TRUE]
UndefinedValue == 0 - 1
MAX_FILE_SIZE == 20 * 1024 * 1024

\* Object spread `...x`: an undefined operand contributes no key.
Spread(x) == IF x = Undefined THEN EmptyMap ELSE x

\* The default value of the constructor's _limits parameter.
DefaultLimits == [files |-> 1, fileSize |-> MAX_FILE_SIZE]

\* A constructor merging its argument over the built-in defaults:
\* `{ files: 1, fileSize: MAX_FILE_SIZE, ..._limits }`.
constructorLimitsMerged(arg) ==
    [k \in DOMAIN DefaultLimits \cup DOMAIN Spread(arg) |->
        IF k \in DOMAIN Spread(arg) THEN Spread(arg)[k] ELSE DefaultLimits[k]]

\* A default parameter that applies on every call, whatever is passed.
constructorLimitsNoDefault(arg) == Spread(arg)

\* `_limits: MultipartLimits = { files: 1, fileSize: MAX_FILE_SIZE }`: the
\* default applies when the argument is undefined.
constructorLimits(arg) == IF arg = Undefined THEN DefaultLimits ELSE arg

\* `{ ...limits, ...this._limits }`: the spread with its operands swapped.
MergeLimitsDefaultsWin(d, o) ==
    [k \in DOMAIN Spread(d) \cup DOMAIN Spread(o) |->
        IF k \in DOMAIN Spread(d) THEN Spread(d)[k] ELSE Spread(o)[k]]

\* `{ ...this._limits, ...limits }`
MergeLimits(d, o) ==
    [k \in DOMAIN Spread(d) \cup DOMAIN Spread(o) |->
        IF k \in DOMAIN Spread(o) THEN Spread(o)[k] ELSE Spread(d)[k]]

\* Limits arguments of the constructor and of parse().
CtorArgs == { Undefined,
              [files |-> 5, fileSize |-> 50 * 1024 * 1024],
              [files |-> 10],
              [fileSize |-> 1024 * 1024] }
Overrides == { Undefined, EmptyMap,
               [fileSize |-> 100 * 1024 * 1024],
               [files |-> 5, fields |-> 10],
               [files |-> UndefinedValue] }
\* The file handlers callers pass to MultipartBody.parse.
FileHandlers == {"h1", "h2"}
\* What a wrapper's promise may settle with.
WrapperMaps == {"map1", "map2"}

\* ----------------------------------------------------------------- state
VARIABLES
    listeners,      \* listeners attached to the tokenizer (this)
    reqListeners,   \* listeners attached to the request stream
    fields,         \* this.fields
    fileHandler,    \* TRUE when this.fileHandler is set
    promise,        \* the promise parse() returned
    handlers,       \* stream id -> state of the handler invoked for it
    piped,          \* streams piped into this.nullStream
    tokenizer,      \* "idle", "emitting", "finished", "errored", "aborted"
    closed,         \* the request stream has emitted 'close'
    cleanupCalls,   \* number of cleanup() executions
    settleCalls,    \* number of resolve()/reject() calls made by onEnd
    unhandledError, \* an 'error' event was emitted with no listener attached
    trace,          \* history: tokenizer events and handler completions, in order
    settledAt,      \* history: index in trace of the settling step, 0 if none
    invocations,    \* history: the calls of this.fileHandler, in order
    pipedAt,        \* history: piped stream -> the promise when stream.pipe ran
    ctorArg,        \* MultipartBody: the limits argument of the constructor
    defaults,       \* MultipartBody: this._limits
    wrappers,       \* MultipartBody: the BusboyWrappers its parse() built
    calls           \* MultipartBody: history of the parse() calls

\* The state of one BusboyWrapper.
wrapperVars == <<listeners, reqListeners, fields, fileHandler, promise, handlers,
                 piped, tokenizer, closed, cleanupCalls, settleCalls,
                 unhandledError, trace, settledAt, invocations, pipedAt>>

\* The state of a MultipartBody.
bodyVars == <<ctorArg, defaults, wrappers, calls>>

vars == <<listeners, reqListeners, fields, fileHandler, promise, handlers,
          piped, tokenizer, closed, cleanupCalls, settleCalls, unhandledError,
          trace, settledAt, invocations, pipedAt, ctorArg, defaults, wrappers,
          calls>>

\* State of a wrapper right after `new BusboyWrapper(req, limits)`, but for
\* the listeners its constructor registers.
Constructed ==
    /\ fields = EmptyMap
    /\ fileHandler = FALSE
    /\ promise = [state |-> "none"]
    /\ handlers = EmptyMap
    /\ piped = {}
    /\ tokenizer = "idle"
    /\ closed = FALSE
    /\ cleanupCalls = 0
    /\ settleCalls = 0
    /\ unhandledError = FALSE
    /\ trace = <<>>
    /\ settledAt = 0
    /\ invocations = <<>>
    /\ pipedAt = EmptyMap

\* A MultipartBody built with its default limits, before any parse().
BodyIdle ==
    /\ ctorArg = Undefined
    /\ defaults = constructorLimits(Undefined)
    /\ wrappers = <<>>
    /\ calls = <<>>

\* State right after `new BusboyWrapper(req, limits)`.
Init ==
    /\ listeners = TokenizerListeners
    /\ reqListeners = RequestListeners
    /\ Constructed
    /\ BodyIdle

\* --------------------------------------------------------------- promise
\* The resolve/reject functions parse() captures from `new Promise`; before
\* parse() they are the empty stubs of the class. A promise settles once.
resolve(p, v) ==
    IF p.state = "pending" THEN [state |-> "resolved", value |-> v] ELSE p

rejectOverwrite(p, e) ==
    IF p.state = "none" THEN p ELSE [state |-> "rejected", reason |-> e]

reject(p, e) ==
    IF p.state = "pending" THEN [state |-> "rejected", reason |-> e] ELSE p

Settled(p) == p.state \in {"resolved", "rejected"}

\* ------------------------------------------------------ cleanup and onEnd
\* cleanup forgetting the 'error' listener.
cleanupKeepsError ==
    /\ reqListeners' = reqListeners \ CleanupRequestRemovals
    /\ listeners' = listeners \ (TokenizerListeners \ {<<"error", "onEnd">>})
    /\ cleanupCalls' = cleanupCalls + 1

\* cleanup forgetting the 'field' listener.
cleanupKeepsField ==
    /\ reqListeners' = reqListeners \ CleanupRequestRemovals
    /\ listeners' = listeners \ (TokenizerListeners \ {<<"field", "onField">>})
    /\ cleanupCalls' = cleanupCalls + 1

cleanup ==
    /\ reqListeners' = reqListeners \ CleanupRequestRemovals
    /\ listeners' = listeners \ TokenizerListeners
    /\ cleanupCalls' = cleanupCalls + 1

\* onEnd without its else branch: a stream-end never resolves.
onEndRejectOnly(err, step) ==
    /\ cleanup
    /\ promise' = IF truthy(err) THEN reject(promise, err) ELSE promise
    /\ settleCalls' = settleCalls + 1
    /\ settledAt' = IF promise.state = "pending" /\ truthy(err) THEN step ELSE settledAt

\* onEnd wrapping the error it was given in a new HttpError.
onEndReclassify(err, step) ==
    /\ cleanup
    /\ promise' = IF truthy(err) THEN reject(promise, httpError(400))
                                 ELSE resolve(promise, fields)
    /\ settleCalls' = settleCalls + 1
    /\ settledAt' = IF promise.state = "pending" THEN step ELSE settledAt

\* onEnd(err): cleanup, then reject(err) for a truthy err, else
\* resolve(this.fields). step is the index of the current step in trace.
onEnd(err, step) ==
    /\ cleanup
    /\ promise' = IF truthy(err) THEN reject(promise, err)
                                 ELSE resolve(promise, fields)
    /\ settleCalls' = settleCalls + 1
    /\ settledAt' = IF promise.state = "pending" THEN step ELSE settledAt

\* An event emitted with no listener attached: nothing of the adapter runs.
NotHandled ==
    UNCHANGED <<listeners, reqListeners, promise, cleanupCalls, settleCalls,
                settledAt>>

onPartsLimit(step) == onEnd(PartsLimitError, step)
onFilesLimit(step) == onEnd(FilesLimitError, step)
onFieldsLimit(step) == onEnd(FieldsLimitError, step)

\* m holds part among the Parts recorded under name.
HasPart(m, name, part) ==
    name \in DOMAIN m /\ \E i \in 1..Len(m[name].items) : m[name].items[i] = part

\* The call this.fileHandler(fieldname, stream, filename, encoding, mimeType),
\* made while this.fields is m.
Invocation(ev, m) ==
    [fieldname |-> ev.name, stream |-> ev.stream, filename |-> ev.filename,
     encoding |-> ev.encoding, mimeType |-> ev.mimeType,
     recorded |-> HasPart(m, ev.name, FilePart(ev))]

\* ------------------------------------------------------------- operations
Step == Len(trace) + 1

\* A stream is identified by the step at which its file event was emitted.
StreamIds == 1..(MaxEvents + MaxFiles)

Emitted == SelectSeq(trace, LAMBDA s : s.by = "tokenizer")

\* The tokenizer emits only while the request is piped into it and it has
\* neither finished nor failed.
CanEmit == tokenizer = "emitting" /\ Len(Emitted) < MaxEvents

\* parse(fileHandler). MultipartBody.parse builds one wrapper per call, so a
\* wrapper's parse() runs once. handler = FALSE is a caller passing undefined.
Parse(handler) ==
    /\ promise.state = "none"
    /\ fileHandler' = handler
    /\ promise' = [state |-> "pending"]
    /\ tokenizer' = "emitting"
    /\ UNCHANGED <<listeners, reqListeners, fields, handlers, piped, closed,
                   cleanupCalls, settleCalls, unhandledError, trace, settledAt>>
    /\ UNCHANGED <<invocations, pipedAt, ctorArg, defaults, wrappers, calls>>

\* onField dropping a field whose name or value was truncated.
EmitFieldSkipTruncated(name, value, nameTruncated, valueTruncated) ==
    LET ev == [by |-> "tokenizer", type |-> "field", name |-> name,
               value |-> value, nameTruncated |-> nameTruncated,
               valueTruncated |-> valueTruncated, encoding |-> "7bit",
               mimeType |-> "text/plain"]
    IN  /\ CanEmit
        /\ trace' = Append(trace, ev)
        /\ fields' = IF <<"field", "onField">> \in listeners
                        /\ ~ nameTruncated /\ ~ valueTruncated
                     THEN setData(fields, name, FieldPart(ev)) ELSE fields
        /\ UNCHANGED <<listeners, reqListeners, fileHandler, promise, handlers,
                       piped, tokenizer, closed, cleanupCalls, settleCalls,
                       unhandledError, settledAt>>
        /\ UNCHANGED <<invocations, pipedAt, ctorArg, defaults, wrappers, calls>>

\* emit('field', ...) -> onField
EmitField(name, value, nameTruncated, valueTruncated) ==
    LET ev == [by |-> "tokenizer", type |-> "field", name |-> name,
               value |-> value, nameTruncated |-> nameTruncated,
               valueTruncated |-> valueTruncated, encoding |-> "7bit",
               mimeType |-> "text/plain"]
    IN  /\ CanEmit
        /\ trace' = Append(trace, ev)
        /\ fields' = IF <<"field", "onField">> \in listeners
                     THEN setData(fields, name, FieldPart(ev)) ELSE fields
        /\ UNCHANGED <<listeners, reqListeners, fileHandler, promise, handlers,
                       piped, tokenizer, closed, cleanupCalls, settleCalls,
                       unhandledError, settledAt>>
        /\ UNCHANGED <<invocations, pipedAt, ctorArg, defaults, wrappers, calls>>

\* onFile without `if (this.fileHandler)`: the handler is called regardless.
EmitFileNoGuard(name) ==
    LET ev == [by |-> "tokenizer", type |-> "file", name |-> name,
               stream |-> Step, filename |-> "f.txt", encoding |-> "7bit",
               mimeType |-> "text/plain"]
        attached == <<"file", "onFile">> \in listeners
    IN  /\ CanEmit
        /\ Cardinality(DOMAIN handlers) < MaxFiles
        /\ trace' = Append(trace, ev)
        /\ fields' = IF attached THEN setData(fields, name, FilePart(ev)) ELSE fields
        /\ handlers' = IF attached
                       THEN Put(handlers, ev.stream, "inflight") ELSE handlers
        /\ invocations' = IF attached
                          THEN Append(invocations, Invocation(ev, fields'))
                          ELSE invocations
        /\ UNCHANGED <<listeners, reqListeners, fileHandler, promise, piped,
                       tokenizer, closed, cleanupCalls, settleCalls,
                       unhandledError, settledAt, pipedAt>>
        /\ UNCHANGED bodyVars

\* onFile calling the handler before setData.
EmitFileInvokeFirst(name) ==
    LET ev == [by |-> "tokenizer", type |-> "file", name |-> name,
               stream |-> Step, filename |-> "f.txt", encoding |-> "7bit",
               mimeType |-> "text/plain"]
        attached == <<"file", "onFile">> \in listeners
    IN  /\ CanEmit
        /\ Cardinality(DOMAIN handlers) < MaxFiles
        /\ trace' = Append(trace, ev)
        /\ fields' = IF attached THEN setData(fields, name, FilePart(ev)) ELSE fields
        /\ handlers' = IF attached /\ fileHandler
                       THEN Put(handlers, ev.stream, "inflight") ELSE handlers
        /\ invocations' = IF attached /\ fileHandler
                          THEN Append(invocations, Invocation(ev, fields))
                          ELSE invocations
        /\ UNCHANGED <<listeners, reqListeners, fileHandler, promise, piped,
                       tokenizer, closed, cleanupCalls, settleCalls,
                       unhandledError, settledAt, pipedAt>>
        /\ UNCHANGED bodyVars

\* onFile waiting for the handlers in flight: the handler of a file part is
\* invoked only when no earlier invocation is pending.
EmitFileSerialized(name) ==
    LET ev == [by |-> "tokenizer", type |-> "file", name |-> name,
               stream |-> Step, filename |-> "f.txt", encoding |-> "7bit",
               mimeType |-> "text/plain"]
        attached == <<"file", "onFile">> \in listeners
        idle == \A id \in DOMAIN handlers : handlers[id] # "inflight"
    IN  /\ CanEmit
        /\ Cardinality(DOMAIN handlers) < MaxFiles
        /\ trace' = Append(trace, ev)
        /\ fields' = IF attached THEN setData(fields, name, FilePart(ev)) ELSE fields
        /\ handlers' = IF attached /\ fileHandler /\ idle
                       THEN Put(handlers, ev.stream, "inflight") ELSE handlers
        /\ invocations' = IF attached /\ fileHandler /\ idle
                          THEN Append(invocations, Invocation(ev, fields'))
                          ELSE invocations
        /\ UNCHANGED <<listeners, reqListeners, fileHandler, promise, piped,
                       tokenizer, closed, cleanupCalls, settleCalls,
                       unhandledError, settledAt, pipedAt>>
        /\ UNCHANGED bodyVars

\* emit('file', ...) -> onFile: record the FilePart, then invoke the handler.
EmitFile(name) ==
    LET ev == [by |-> "tokenizer", type |-> "file", name |-> name,
               stream |-> Step, filename |-> "f.txt", encoding |-> "7bit",
               mimeType |-> "text/plain"]
        attached == <<"file", "onFile">> \in listeners
    IN  /\ CanEmit
        /\ Cardinality(DOMAIN handlers) < MaxFiles
        /\ trace' = Append(trace, ev)
        /\ fields' = IF attached THEN setData(fields, name, FilePart(ev)) ELSE fields
        /\ handlers' = IF attached /\ fileHandler
                       THEN Put(handlers, ev.stream, "inflight") ELSE handlers
        /\ invocations' = IF attached /\ fileHandler
                          THEN Append(invocations, Invocation(ev, fields'))
                          ELSE invocations
        /\ UNCHANGED <<listeners, reqListeners, fileHandler, promise, piped,
                       tokenizer, closed, cleanupCalls, settleCalls,
                       unhandledError, settledAt, pipedAt>>
        /\ UNCHANGED bodyVars

\* emit('finish') -> onEnd()
EmitFinish ==
    /\ CanEmit
    /\ trace' = Append(trace, [by |-> "tokenizer", type |-> "finish"])
    /\ tokenizer' = "finished"
    /\ IF <<"finish", "onEnd">> \in listeners THEN onEnd(Falsy, Step) ELSE NotHandled
    /\ UNCHANGED <<fields, fileHandler, handlers, piped, closed, unhandledError>>
    /\ UNCHANGED <<invocations, pipedAt, ctorArg, defaults, wrappers, calls>>

\* The 'error' listener draining the stream of every handler in flight.
EmitErrorDrains(e) ==
    /\ CanEmit
    /\ trace' = Append(trace, [by |-> "tokenizer", type |-> "error", error |-> e])
    /\ tokenizer' = "errored"
    /\ IF <<"error", "onEnd">> \in listeners
       THEN /\ onEnd(e, Step)
            /\ piped' = piped \cup {id \in DOMAIN handlers : handlers[id] = "inflight"}
            /\ UNCHANGED unhandledError
       ELSE NotHandled /\ unhandledError' = TRUE /\ piped' = piped
    /\ UNCHANGED <<fields, fileHandler, handlers, closed>>
    /\ UNCHANGED <<invocations, pipedAt, ctorArg, defaults, wrappers, calls>>

\* emit('error', e) -> onEnd(e); an 'error' without listener is thrown by
\* the emitter.
EmitError(e) ==
    /\ CanEmit
    /\ trace' = Append(trace, [by |-> "tokenizer", type |-> "error", error |-> e])
    /\ tokenizer' = "errored"
    /\ IF <<"error", "onEnd">> \in listeners
       THEN onEnd(e, Step) /\ UNCHANGED unhandledError
       ELSE NotHandled /\ unhandledError' = TRUE
    /\ UNCHANGED <<fields, fileHandler, handlers, piped, closed>>
    /\ UNCHANGED <<invocations, pipedAt, ctorArg, defaults, wrappers, calls>>

\* emit('partsLimit') -> onPartsLimit
EmitPartsLimit ==
    /\ CanEmit
    /\ trace' = Append(trace, [by |-> "tokenizer", type |-> "partsLimit"])
    /\ IF <<"partsLimit", "onPartsLimit">> \in listeners
       THEN onPartsLimit(Step) ELSE NotHandled
    /\ UNCHANGED <<fields, fileHandler, handlers, piped, tokenizer, closed,
                   unhandledError>>
    /\ UNCHANGED <<invocations, pipedAt, ctorArg, defaults, wrappers, calls>>

\* emit('filesLimit') -> onFilesLimit
EmitFilesLimit ==
    /\ CanEmit
    /\ trace' = Append(trace, [by |-> "tokenizer", type |-> "filesLimit"])
    /\ IF <<"filesLimit", "onFilesLimit">> \in listeners
       THEN onFilesLimit(Step) ELSE NotHandled
    /\ UNCHANGED <<fields, fileHandler, handlers, piped, tokenizer, closed,
                   unhandledError>>
    /\ UNCHANGED <<invocations, pipedAt, ctorArg, defaults, wrappers, calls>>

\* emit('fieldsLimit') -> onFieldsLimit
EmitFieldsLimit ==
    /\ CanEmit
    /\ trace' = Append(trace, [by |-> "tokenizer", type |-> "fieldsLimit"])
    /\ IF <<"fieldsLimit", "onFieldsLimit">> \in listeners
       THEN onFieldsLimit(Step) ELSE NotHandled
    /\ UNCHANGED <<fields, fileHandler, handlers, piped, tokenizer, closed,
                   unhandledError>>
    /\ UNCHANGED <<invocations, pipedAt, ctorArg, defaults, wrappers, calls>>

\* The handler's promise fulfils: `.then(() => { this.onEnd(); })`
HandlerResolve(id) ==
    /\ id \in DOMAIN handlers
    /\ handlers[id] = "inflight"
    /\ handlers' = [handlers EXCEPT ![id] = "succeeded"]
    /\ trace' = Append(trace, [by |-> "handler", type |-> "success", stream |-> id])
    /\ onEnd(Falsy, Step)
    /\ UNCHANGED <<fields, fileHandler, piped, tokenizer, closed, unhandledError>>
    /\ UNCHANGED <<invocations, pipedAt, ctorArg, defaults, wrappers, calls>>

\* The catch callback with its two statements swapped: onEnd(reason), then
\* stream.pipe(this.nullStream).
HandlerRejectPipeLast(id, reason) ==
    /\ id \in DOMAIN handlers
    /\ handlers[id] = "inflight"
    /\ handlers' = [handlers EXCEPT ![id] = "failed"]
    /\ trace' = Append(trace, [by |-> "handler", type |-> "failure",
                               stream |-> id, error |-> reason])
    /\ onEnd(reason, Step)
    /\ piped' = piped \cup {id}
    /\ pipedAt' = Put(pipedAt, id, promise')
    /\ UNCHANGED <<fields, fileHandler, tokenizer, closed, unhandledError>>
    /\ UNCHANGED <<invocations, ctorArg, defaults, wrappers, calls>>

\* The handler's promise rejects:
\* `.catch(reason => { stream.pipe(this.nullStream); this.onEnd(reason); })`
HandlerReject(id, reason) ==
    /\ id \in DOMAIN handlers
    /\ handlers[id] = "inflight"
    /\ handlers' = [handlers EXCEPT ![id] = "failed"]
    /\ trace' = Append(trace, [by |-> "handler", type |-> "failure",
                               stream |-> id, error |-> reason])
    /\ piped' = piped \cup {id}
    /\ pipedAt' = Put(pipedAt, id, promise)
    /\ onEnd(reason, Step)
    /\ UNCHANGED <<fields, fileHandler, tokenizer, closed, unhandledError>>
    /\ UNCHANGED <<invocations, ctorArg, defaults, wrappers, calls>>

\* The request stream emits 'close'; the registered arrow function
\* `() => this.cleanup` evaluates the property and calls nothing. A premature
\* close (client disconnect) ends the data the tokenizer is fed.
ReqClose(premature) ==
    /\ ~closed
    /\ tokenizer # "idle"
    /\ premature => tokenizer = "emitting"
    /\ closed' = TRUE
    /\ tokenizer' = IF premature THEN "aborted" ELSE tokenizer
    /\ UNCHANGED <<listeners, reqListeners, fields, fileHandler, promise,
                   handlers, piped, cleanupCalls, settleCalls, unhandledError,
                   trace, settledAt>>
    /\ UNCHANGED <<invocations, pipedAt, ctorArg, defaults, wrappers, calls>>

Next ==
    \/ \E h \in BOOLEAN : Parse(h)
    \/ \E n \in Names, a \in FieldArgs : EmitField(n, a[1], a[2], a[3])
    \/ \E n \in Names : EmitFile(n)
    \/ EmitFinish
    \/ \E e \in TokenizerErrors : EmitError(e)
    \/ EmitPartsLimit
    \/ EmitFilesLimit
    \/ EmitFieldsLimit
    \/ \E id \in StreamIds : HandlerResolve(id)
    \/ \E id \in StreamIds, r \in HandlerErrors \cup {Falsy} :
          HandlerReject(id, r)
    \/ \E p \in BOOLEAN : ReqClose(p)

Spec == Init /\ [][Next]_vars

\* ---------------------------------------------- the multipart/related wiring
\* MultipartRelatedParser has the methods of BusboyWrapper, word for word,
\* but its constructor is `super()` alone: it registers no listener, neither
\* on itself nor on the request. No file handler is ever invoked, so no
\* handler completes.
InitRelated ==
    /\ listeners = {}
    /\ reqListeners = {}
    /\ Constructed
    /\ BodyIdle

NextRelated ==
    \/ \E h \in BOOLEAN : Parse(h)
    \/ \E n \in Names, a \in FieldArgs : EmitField(n, a[1], a[2], a[3])
    \/ \E n \in Names : EmitFile(n)
    \/ EmitFinish
    \/ \E e \in TokenizerErrors : EmitError(e)
    \/ EmitPartsLimit
    \/ EmitFilesLimit
    \/ EmitFieldsLimit
    \/ \E p \in BOOLEAN : ReqClose(p)

SpecRelated == InitRelated /\ [][NextRelated]_vars

\* ------------------------------------------------------------ MultipartBody
\* `new MultipartBody(req, limits)`: stores the limits, builds no wrapper.
\* The inside of the wrappers is left out here: a wrapper is its limits, the
\* handler its parse() was given and its promise.
InitBody ==
    /\ listeners = TokenizerListeners
    /\ reqListeners = RequestListeners
    /\ Constructed
    /\ ctorArg \in CtorArgs
    /\ defaults = constructorLimits(ctorArg)
    /\ wrappers = <<>>
    /\ calls = <<>>

\* parse() keeping one wrapper for all its calls.
BodyParseReuse(handler, limits) ==
    /\ Len(calls) < MaxParseCalls
    /\ wrappers' = IF wrappers = <<>>
                   THEN <<[limits |-> MergeLimits(defaults, limits),
                           fileHandler |-> handler,
                           promise |-> [state |-> "pending"]]>>
                   ELSE wrappers
    /\ calls' = Append(calls, [fileHandler |-> handler, limits |-> limits,
                               returned |-> 1])
    /\ UNCHANGED <<ctorArg, defaults>>
    /\ UNCHANGED wrapperVars

\* parse() storing the merged limits back into this._limits.
BodyParseWritesDefaults(handler, limits) ==
    /\ Len(calls) < MaxParseCalls
    /\ wrappers' = Append(wrappers, [limits |-> MergeLimits(defaults, limits),
                                     fileHandler |-> handler,
                                     promise |-> [state |-> "pending"]])
    /\ calls' = Append(calls, [fileHandler |-> handler, limits |-> limits,
                               returned |-> Len(wrappers) + 1])
    /\ defaults' = MergeLimits(defaults, limits)
    /\ UNCHANGED ctorArg
    /\ UNCHANGED wrapperVars

\* MultipartBody.parse(fileHandler, limits):
\*   const busboy = new BusboyWrapper(this.req, { ...this._limits, ...limits });
\*   return busboy.parse(fileHandler);
\* `returned` is the wrapper whose promise the call returns.
BodyParse(handler, limits) ==
    /\ Len(calls) < MaxParseCalls
    /\ wrappers' = Append(wrappers, [limits |-> MergeLimits(defaults, limits),
                                     fileHandler |-> handler,
                                     promise |-> [state |-> "pending"]])
    /\ calls' = Append(calls, [fileHandler |-> handler, limits |-> limits,
                               returned |-> Len(wrappers) + 1])
    /\ UNCHANGED <<ctorArg, defaults>>
    /\ UNCHANGED wrapperVars

\* The promise of wrapper w resolves with a Map.
WrapperResolves(w, m) ==
    /\ w \in 1..Len(wrappers)
    /\ wrappers[w].promise.state = "pending"
    /\ wrappers' = [wrappers EXCEPT ![w].promise = resolve(@, m)]
    /\ UNCHANGED <<ctorArg, defaults, calls>>
    /\ UNCHANGED wrapperVars

\* The promise of wrapper w rejects with an error.
WrapperRejects(w, e) ==
    /\ w \in 1..Len(wrappers)
    /\ wrappers[w].promise.state = "pending"
    /\ wrappers' = [wrappers EXCEPT ![w].promise = reject(@, e)]
    /\ UNCHANGED <<ctorArg, defaults, calls>>
    /\ UNCHANGED wrapperVars

NextBody ==
    \/ \E h \in FileHandlers, o \in Overrides : BodyParse(h, o)
    \/ \E w \in 1..MaxParseCalls, m \in WrapperMaps : WrapperResolves(w, m)
    \/ \E w \in 1..MaxParseCalls, e \in TokenizerErrors \cup {FilesLimitError} :
          WrapperRejects(w, e)

SpecBody == InitBody /\ [][NextBody]_vars

\* ======================================================================
\* Vocabulary of the properties
\* ======================================================================
\* Handler invocations that have not completed yet.
InFlight == { id \in DOMAIN handlers : handlers[id] = "inflight" }

\* Handler invocations in flight right after step i of the trace.
InFlightAfter(i) ==
    { id \in DOMAIN handlers :
        /\ id <= i
        /\ ~ \E j \in (id + 1)..i :
               trace[j].by = "handler" /\ trace[j].stream = id }

IsEvent(s, type) == s.by = "tokenizer" /\ s.type = type
IsPartEvent(s) == s.by = "tokenizer" /\ s.type \in {"field", "file"}
IsSuccess(s) == s.by = "handler" /\ s.type = "success"
IsFailure(s) == s.by = "handler" /\ s.type = "failure"
IsLimit(s) == s.by = "tokenizer" /\ s.type \in {"partsLimit", "filesLimit", "fieldsLimit"}
IsTerminal(s) ==
    \/ s.by = "handler"
    \/ s.by = "tokenizer" /\ s.type \notin {"field", "file"}

\* The step just taken appended s to the trace.
Took(P(_)) == Len(trace') = Len(trace) + 1 /\ P(trace'[Len(trace')])

\* The parse was still unsettled when step i began.
UnsettledBefore(i) == settledAt = 0 \/ settledAt >= i

\* The Parts of the events named n, in arrival order.
EventsNamed(n) == SelectSeq(trace, LAMBDA s : IsPartEvent(s) /\ s.name = n)
PartOfEvent(ev) == IF ev.type = "field" THEN FieldPart(ev) ELSE FilePart(ev)
PartsNamed(n) == [i \in 1..Len(EventsNamed(n)) |-> PartOfEvent(EventsNamed(n)[i])]

\* m holds one Part for every field and file event emitted so far.
RecordsAll(m) ==
    \A n \in Names :
        IF Len(EventsNamed(n)) = 0 THEN n \notin DOMAIN m
        ELSE n \in DOMAIN m /\ m[n].items = PartsNamed(n)

\* ======================================================================
\* C1..C10: settlement of parse()
\* ======================================================================

\* C1: a successful resolution implies that stream-end was seen and that no
\* handler invocation is in flight at the step that resolves (a finish with a
\* handler in flight does not settle). The code resolves at 'finish' and at
\* the first handler success whatever is in flight.
C1_ResolvedOnlyAfterEndAndDrain ==
    promise.state = "resolved" =>
        /\ \E i \in 1..settledAt : IsEvent(trace[i], "finish")
        /\ InFlightAfter(settledAt) = {}

\* C2: a handler's success leaves the parse unsettled, listeners attached,
\* unless stream-end was already signalled and it was the last one in flight.
C2_SuccessSettlesOnlyAsLast ==
    [][ \A id \in DOMAIN handlers :
          ( /\ handlers[id] = "inflight"
            /\ handlers'[id] = "succeeded"
            /\ promise.state = "pending"
            /\ ~ (tokenizer = "finished" /\ InFlight = {id}) )
          => (promise'.state = "pending" /\ listeners' = listeners) ]_vars

\* C3: when parse() has resolved, the returned Map (this.fields) holds one
\* Part for every field and file event the tokenizer emitted up to stream-end.
C3_ResolvedMapHoldsEveryPart ==
    (promise.state = "resolved" /\ tokenizer = "finished") => RecordsAll(fields)

\* C4: every terminal event or handler completion leaves the promise settled,
\* and a settled promise never changes its outcome (settles exactly once).
C4_SingleSettlement ==
    [][ /\ Took(IsTerminal) => Settled(promise')
        /\ Settled(promise) => (promise' = promise /\ settledAt' = settledAt) ]_vars

\* C4 witness: a parse resolved by one terminal event after which a handler
\* rejected with an error, a second terminal call that reached onEnd.
C4_Witness ==
    /\ promise.state = "resolved"
    /\ settleCalls >= 2
    /\ \E i \in (settledAt + 1)..Len(trace) :
          IsFailure(trace[i]) /\ truthy(trace[i].error)

\* C5: 'finish' while the parse is unsettled and no handler is in flight
\* resolves at that step with the ResultSet built so far, which holds every
\* field and file recorded up to then.
C5_FinishResolvesWithResultSet ==
    [][ ( /\ Took(LAMBDA s : IsEvent(s, "finish"))
          /\ promise.state = "pending"
          /\ InFlight = {} )
        => ( /\ promise' = [state |-> "resolved", value |-> fields]
             /\ fields' = fields
             /\ RecordsAll(fields) ) ]_vars

\* C5 witness: the parse was resolved by 'finish' with a non-empty ResultSet.
C5_Witness ==
    /\ promise.state = "resolved"
    /\ settledAt > 0
    /\ IsEvent(trace[settledAt], "finish")
    /\ DOMAIN promise.value # {}
    /\ handlers = EmptyMap

\* C6: a handler rejecting with error e, when no earlier failure has settled
\* the parse, makes parse() reject with exactly e.
C6_HandlerFailureRejectsWithSameError ==
    \A i \in 1..Len(trace) :
        ( /\ IsFailure(trace[i])
          /\ truthy(trace[i].error)
          /\ ~ (promise.state = "rejected" /\ settledAt < i) )
        => promise = [state |-> "rejected", reason |-> trace[i].error]

\* C7: an 'error' event with error e while the parse is unsettled rejects at
\* that step with exactly e, whatever is in flight, and no later completion
\* changes the outcome.
C7_ErrorRejectsWithNativeError ==
    \A i \in 1..Len(trace) :
        (IsEvent(trace[i], "error") /\ UnsettledBefore(i))
        => (promise = [state |-> "rejected", reason |-> trace[i].error]
            /\ settledAt = i)

\* C7 witness: rejected by 'error' with a handler in flight that completed
\* afterwards.
C7_Witness ==
    /\ settledAt > 0
    /\ IsEvent(trace[settledAt], "error")
    /\ InFlightAfter(settledAt) # {}
    /\ \E j \in (settledAt + 1)..Len(trace) : trace[j].by = "handler"
    /\ promise.state = "rejected"

\* The reason string the specification assigns to each limit event.
LimitReason(type) ==
    CASE type = "partsLimit" -> "Reached parts limit"
      [] type = "filesLimit" -> "Reached files limit"
      [] type = "fieldsLimit" -> "Reached fields limit"

\* C8: partsLimit, filesLimit or fieldsLimit while the parse is unsettled
\* rejects at that step with an HTTP 413 error whose internal-details reason
\* is the one of that event type, whatever is in flight.
C8_LimitRejectsWith413 ==
    \A i \in 1..Len(trace) :
        (IsLimit(trace[i]) /\ UnsettledBefore(i))
        => ( /\ promise.state = "rejected"
             /\ settledAt = i
             /\ promise.reason.kind = "HttpError"
             /\ promise.reason.statusCode = 413
             /\ promise.reason.internalDetails = [reason |-> LimitReason(trace[i].type)] )

\* C8 witness: rejected by filesLimit while a handler was in flight.
C8_Witness ==
    /\ settledAt > 0
    /\ IsEvent(trace[settledAt], "filesLimit")
    /\ InFlightAfter(settledAt) # {}
    /\ promise.state = "rejected"

\* C9: files limit 1, two file parts (a file event, then filesLimit), the
\* handler not failing: parse() fails with the files-limit error wherever the
\* first handler's completion falls, and the handler is invoked at most once.
C9_FilesLimitFidelity ==
    ( /\ fileHandler
      /\ Len(Emitted) = 2
      /\ IsEvent(Emitted[1], "file")
      /\ IsEvent(Emitted[2], "filesLimit")
      /\ \A i \in 1..Len(trace) : ~ IsFailure(trace[i]) )
    => ( /\ promise.state = "rejected"
         /\ promise.reason = FilesLimitError
         /\ Cardinality(DOMAIN handlers) <= 1 )

\* C10: once the parse has settled, no listener the adapter registered is
\* attached, neither on the tokenizer nor ('close') on the request stream.
C10_NoListenerAfterSettlement ==
    Settled(promise) => (listeners = {} /\ reqListeners = {})

\* ======================================================================
\* C11..C20: request close, the accumulator, the two wirings, MultipartBody
\* ======================================================================

\* Nothing can happen any more after a premature close: the tokenizer is cut
\* off and no handler invocation is in flight.
QuiescentAfterClose == closed /\ tokenizer = "aborted" /\ InFlight = {}

\* C11: when the request closes prematurely before any terminal event (no
\* limit event, no handler completion, no finish or error) has reached the
\* parse, the parse ends rejected; it does not stay pending for ever.
C11_PrematureCloseRejects ==
    (QuiescentAfterClose /\ \A i \in 1..Len(trace) : ~ IsTerminal(trace[i]))
    => promise.state = "rejected"

\* C12: once the request stream has emitted 'close', no listener of the
\* adapter is attached to the tokenizer or to the request (the close ran the
\* listener cleanup), and the close built no error for the caller.
C12_CloseRunsCleanup ==
    closed => (listeners = {} /\ reqListeners = {})

\* The events the accumulator received: those emitted before the first call
\* of onEnd detached the listeners.
Received == IF settledAt = 0 THEN trace ELSE SubSeq(trace, 1, settledAt - 1)
ReceivedNamed(n) == SelectSeq(Received, LAMBDA s : IsPartEvent(s) /\ s.name = n)
ReceivedParts(n) ==
    LET evs == ReceivedNamed(n)
    IN  [i \in 1..Len(evs) |-> PartOfEvent(evs[i])]
IsFilePart(part) == "stream" \in DOMAIN part

\* C13 (merge law): a name received once maps to the bare Part, a name
\* received k >= 2 times to a list of exactly those k Parts in arrival order,
\* fields and files alike; a name never received has no entry.
C13_MergeLaw ==
    \A n \in Names :
        LET parts == ReceivedParts(n)
        IN  CASE Len(parts) = 0 -> n \notin DOMAIN fields
              [] Len(parts) = 1 -> n \in DOMAIN fields
                                   /\ fields[n] = [isArray |-> FALSE, items |-> parts]
              [] OTHER -> n \in DOMAIN fields
                          /\ fields[n] = [isArray |-> TRUE, items |-> parts]

\* C13 witness: one name holds a list mixing a field and a file in arrival
\* order, another name holds a bare Part.
C13_Witness ==
    \E n, k \in Names :
        /\ n \in DOMAIN fields /\ k \in DOMAIN fields
        /\ fields[n].isArray /\ Len(fields[n].items) = 2
        /\ IsFilePart(fields[n].items[1]) /\ ~ IsFilePart(fields[n].items[2])
        /\ ~ fields[k].isArray

\* C15: the Map is handed to the caller by the resolution only (the resolved
\* value is this.fields), and once parse() has resolved no later step changes
\* the Map or the value the promise carries.
C15_ResultSetImmutableOnceReturned ==
    [][ /\ promise'.state = "resolved" => promise'.value = fields'
        /\ promise.state = "resolved" => (fields' = fields /\ promise' = promise)
      ]_vars

\* C15 witness: a part event was emitted after parse() had resolved and the
\* returned Map does not hold it.
C15_Witness ==
    /\ promise.state = "resolved"
    /\ \E i \in (settledAt + 1)..Len(trace) : IsPartEvent(trace[i])
    /\ promise.value = fields

\* C14: with no file handler set, a file event taken while the parse is
\* unsettled records the FilePart with the event's stream as the last Part of
\* its name, invokes nothing, pipes nothing and leaves the parse unsettled
\* with its listeners; the stream-end that follows resolves parse() with a
\* Map that holds the FilePart of every file event received.
C14_NoHandlerSafety ==
    [][ /\ ( /\ Took(LAMBDA s : IsEvent(s, "file"))
             /\ ~ fileHandler
             /\ promise.state = "pending" )
           => LET ev == trace'[Len(trace')]
                  items == fields'[ev.name].items
              IN  /\ ev.name \in DOMAIN fields'
                  /\ items[Len(items)] = FilePart(ev)
                  /\ items[Len(items)].stream = ev.stream
                  /\ invocations' = invocations
                  /\ handlers' = handlers
                  /\ piped' = piped
                  /\ promise' = promise
                  /\ listeners' = listeners
        /\ ( /\ Took(LAMBDA s : IsEvent(s, "finish"))
             /\ ~ fileHandler
             /\ promise.state = "pending" )
           => /\ promise'.state = "resolved"
              /\ \A i \in 1..Len(trace) :
                    IsEvent(trace[i], "file")
                    => HasPart(promise'.value, trace[i].name, FilePart(trace[i]))
      ]_vars

\* C14 witness: parse() without handler resolved by 'finish' after a file
\* event; the Map holds the FilePart, nothing was invoked or piped.
C14_Witness ==
    /\ ~ fileHandler
    /\ promise.state = "resolved"
    /\ \E i \in 1..(settledAt - 1) :
          /\ IsEvent(trace[i], "file")
          /\ HasPart(promise.value, trace[i].name, FilePart(trace[i]))
    /\ invocations = <<>>
    /\ piped = {}

\* What BusboyWrapper.parse gives for the events of the trace: pending until
\* the first terminal step, then settled by that step.
FirstTerminal ==
    IF \E i \in 1..Len(trace) : IsTerminal(trace[i])
    THEN CHOOSE i \in 1..Len(trace) :
            IsTerminal(trace[i]) /\ \A j \in 1..(i - 1) : ~ IsTerminal(trace[j])
    ELSE 0

PartsBefore(t, n) ==
    LET evs == SelectSeq(SubSeq(trace, 1, t - 1),
                         LAMBDA s : IsPartEvent(s) /\ s.name = n)
    IN  [i \in 1..Len(evs) |-> PartOfEvent(evs[i])]

MapBefore(t) ==
    [n \in {k \in Names : Len(PartsBefore(t, k)) > 0} |->
        [isArray |-> Len(PartsBefore(t, n)) >= 2, items |-> PartsBefore(t, n)]]

WrapperOutcome ==
    LET t == FirstTerminal
        s == trace[t]
    IN  IF t = 0 THEN [state |-> IF tokenizer = "idle" THEN "none" ELSE "pending"]
        ELSE IF IsEvent(s, "error") THEN [state |-> "rejected", reason |-> s.error]
        ELSE IF IsEvent(s, "partsLimit") THEN [state |-> "rejected", reason |-> PartsLimitError]
        ELSE IF IsEvent(s, "filesLimit") THEN [state |-> "rejected", reason |-> FilesLimitError]
        ELSE IF IsEvent(s, "fieldsLimit") THEN [state |-> "rejected", reason |-> FieldsLimitError]
        ELSE IF IsFailure(s) /\ truthy(s.error) THEN [state |-> "rejected", reason |-> s.error]
        ELSE [state |-> "resolved", value |-> MapBefore(t)]

\* BusboyWrapper.parse settles as WrapperOutcome says (holds under Spec).
WrapperSettlesAsOutcome == promise = WrapperOutcome /\ settledAt = FirstTerminal

\* C16: for every sequence of events, MultipartRelatedParser.parse settles at
\* the step and with the ResultSet or error BusboyWrapper.parse settles with.
C16_RelatedEquivalentToFormData ==
    /\ promise.state = WrapperOutcome.state
    /\ promise = WrapperOutcome
    /\ settledAt = FirstTerminal

\* C17: the limits of the wrapper a parse() call builds are the defaults
\* overlaid by the call's limits key by key: a key the call specifies has the
\* call's value, any other key the default's; with no or empty limits they
\* are the defaults.
C17_LimitsOverlay ==
    \A j \in 1..Len(calls) :
        LET d == defaults
            o == Spread(calls[j].limits)
            l == wrappers[calls[j].returned].limits
        IN  /\ DOMAIN l = DOMAIN d \cup DOMAIN o
            /\ \A k \in DOMAIN o : l[k] = o[k]
            /\ \A k \in DOMAIN d \ DOMAIN o : l[k] = d[k]
            /\ DOMAIN o = {} => l = d

\* C17 witness: a call whose limits replace one default key by another value,
\* add a key and leave a third key to the default.
C17_Witness ==
    \E j \in 1..Len(calls) :
        LET o == Spread(calls[j].limits)
            l == wrappers[calls[j].returned].limits
        IN  /\ \E k \in DOMAIN o \cap DOMAIN defaults : o[k] # defaults[k]
            /\ DOMAIN o \ DOMAIN defaults # {}
            /\ DOMAIN defaults \ DOMAIN o # {}
            /\ DOMAIN l = DOMAIN o \cup DOMAIN defaults

\* C18: a MultipartBody built without limits gives every wrapper files = 1
\* and fileSize = 20 MB, unless the parse() call specifies that key.
C18_DefaultLimits ==
    ctorArg = Undefined =>
        \A j \in 1..Len(calls) :
            LET o == Spread(calls[j].limits)
                l == wrappers[calls[j].returned].limits
            IN  /\ "files" \notin DOMAIN o
                   => ("files" \in DOMAIN l /\ l["files"] = 1)
                /\ "fileSize" \notin DOMAIN o
                   => ("fileSize" \in DOMAIN l /\ l["fileSize"] = 20971520)

\* C18 witness: a body built without limits, a first parse() that overrode
\* fileSize and a second parse() without limits that got both defaults.
C18_Witness ==
    /\ ctorArg = Undefined
    /\ Len(calls) = 2
    /\ "fileSize" \in DOMAIN Spread(calls[1].limits)
    /\ calls[2].limits = Undefined
    /\ wrappers[calls[2].returned].limits = [files |-> 1, fileSize |-> 20971520]

\* C19: a MultipartBody has built as many wrappers as parse() was called
\* (none at construction); call j returned the promise of the wrapper built
\* by call j, whose parse() got the handler of call j, so the call settles
\* with the very Map or error of that wrapper.
C19_OneWrapperPerCall ==
    /\ Len(wrappers) = Len(calls)
    /\ \A j \in 1..Len(calls) :
          /\ calls[j].returned = j
          /\ wrappers[j].fileHandler = calls[j].fileHandler

\* C19 witness: two calls with different handlers whose wrappers settled
\* differently, one resolved with a Map, one rejected.
C19_Witness ==
    /\ Len(calls) = 2
    /\ calls[1].fileHandler # calls[2].fileHandler
    /\ wrappers[calls[1].returned].promise.state = "resolved"
    /\ wrappers[calls[2].returned].promise.state = "rejected"

\* The calls of the handler made for the stream of the file event at step i.
InvocationsOf(i) == { k \in 1..Len(invocations) : invocations[k].stream = i }

\* C20: for each file event received while the parse is unsettled and a
\* handler is set, the handler is called exactly once, with the event's
\* (fieldName, stream, filename, encoding, mimeType), at a moment the
\* FilePart with that stream is already in the ResultSet; no part's handler
\* is ever called twice, failed or not.
C20_HandlerInvokedOnceAfterRecording ==
    \A i \in 1..Len(trace) :
        IsEvent(trace[i], "file") =>
            LET made == InvocationsOf(i)
            IN
            /\ Cardinality(made) <= 1
            /\ (fileHandler /\ (settledAt = 0 \/ settledAt > i)) =>
                  /\ Cardinality(made) = 1
                  /\ \A k \in made :
                        invocations[k] =
                            [fieldname |-> trace[i].name, stream |-> trace[i].stream,
                             filename |-> trace[i].filename,
                             encoding |-> trace[i].encoding,
                             mimeType |-> trace[i].mimeType, recorded |-> TRUE]
                  /\ HasPart(fields, trace[i].name, FilePart(trace[i]))

\* C20 witness: two file events, each handler called once, and the first
\* handler failed with an error.
C20_Witness ==
    /\ Len(invocations) = 2
    /\ invocations[1].stream # invocations[2].stream
    /\ \E j \in 1..Len(trace) :
          IsFailure(trace[j]) /\ truthy(trace[j].error)
          /\ trace[j].stream = invocations[1].stream

\* ======================================================================
\* C21..C30: draining, concurrency of the handlers, cleanup, limits
\* ======================================================================

\* C21: every handler rejection pipes the rejected part's stream into the
\* discard sink, and the pipe runs before that rejection's onEnd: it sees the
\* promise as the step found it, pending when this rejection is the one that
\* fails the parse, settled otherwise, and the stream is piped in both cases;
\* the success of a handler pipes nothing, its stream is never piped.
C21_RejectionDrainsBeforeFailure ==
    [][ /\ Took(IsFailure) =>
              LET s == trace'[Len(trace')]
              IN  /\ s.stream \in piped'
                  /\ s.stream \in DOMAIN pipedAt'
                  /\ pipedAt'[s.stream] = promise
                  /\ (promise.state = "pending" /\ truthy(s.error))
                     => promise' = [state |-> "rejected", reason |-> s.error]
        /\ Took(IsSuccess) =>
              /\ piped' = piped
              /\ trace'[Len(trace')].stream \notin piped'
      ]_vars

\* C21 witness: one handler failed the parse, a second one rejected after the
\* settlement and was drained too.
C21_Witness ==
    /\ promise.state = "rejected"
    /\ Cardinality(piped) = 2
    /\ \E id \in piped : pipedAt[id].state = "pending"
    /\ \E id \in piped : pipedAt[id].state = "rejected"

\* The steps at which a handler rejected with an error.
Failures == { i \in 1..Len(trace) : IsFailure(trace[i]) /\ truthy(trace[i].error) }

FirstFailure == CHOOSE i \in Failures : \A j \in Failures : i <= j

\* C22: when two or more handlers of one parse reject and no stream error or
\* limit event came before the first rejection, parse() is rejected with the
\* error of the rejection processed first; each later rejection drained its
\* stream and ran cleanup, changed nothing of the outcome and raised nothing.
C22_FirstRejectionWins ==
    ( /\ Cardinality(Failures) >= 2
      /\ \A j \in 1..(FirstFailure - 1) :
            ~ IsEvent(trace[j], "error") /\ ~ IsLimit(trace[j]) )
    => ( /\ promise = [state |-> "rejected", reason |-> trace[FirstFailure].error]
         /\ \A i \in Failures : trace[i].stream \in piped
         /\ cleanupCalls >= Cardinality(Failures)
         /\ unhandledError => \E j \in 1..Len(trace) : IsEvent(trace[j], "error") )

\* C23: a file event received while the parse is unsettled, a handler is set
\* and an earlier invocation is still in flight invokes its own handler at
\* that very step, which joins the ones in flight; every invocation in flight
\* can complete next, by success or by failure, whatever the others do.
C23_HandlersNotSerialized ==
    [][ /\ ( /\ Took(LAMBDA s : IsEvent(s, "file"))
             /\ fileHandler
             /\ promise.state = "pending"
             /\ InFlight # {} )
           => LET ev == trace'[Len(trace')]
              IN  /\ handlers' = Put(handlers, ev.stream, "inflight")
                  /\ InFlight' = InFlight \cup {ev.stream}
                  /\ Len(invocations') = Len(invocations) + 1
                  /\ invocations'[Len(invocations')].stream = ev.stream
        /\ \A id \in InFlight :
              /\ ENABLED HandlerResolve(id)
              /\ ENABLED (\E e \in HandlerErrors : HandlerReject(id, e))
      ]_vars

\* C23 witness: two handlers were in flight together and the one invoked
\* last completed first.
C23_Witness ==
    \E i, j \in DOMAIN handlers :
        /\ i < j
        /\ i \in InFlightAfter(j)
        /\ \E ci, cj \in 1..Len(trace) :
              /\ trace[ci].by = "handler" /\ trace[ci].stream = i
              /\ trace[cj].by = "handler" /\ trace[cj].stream = j
              /\ cj < ci

\* C24: once a terminal event, a handler completion or the close of the
\* request has arrived, the listener cleanup has run exactly once, however
\* many of them arrived.
C24_CleanupRunsExactlyOnce ==
    (closed \/ \E i \in 1..Len(trace) : IsTerminal(trace[i]))
    => cleanupCalls = 1

\* The FieldParts recorded under name n.
FieldPartsIn(m, n) ==
    IF n \in DOMAIN m
    THEN SelectSeq(m[n].items, LAMBDA p : ~ IsFilePart(p)) ELSE <<>>

\* C25: a field event delivered while the parse is unsettled appends exactly
\* one FieldPart to the Parts of its name, whose value, nameTruncated,
\* valueTruncated, encoding and mimeType are the event's arguments, and
\* changes nothing else of the Map: truncated fields are recorded with their
\* flag, equal fields are recorded again, nothing is rewritten.
C25_FieldRecordedVerbatim ==
    [][ ( /\ Took(LAMBDA s : IsEvent(s, "field"))
          /\ promise.state = "pending" )
        => LET ev == trace'[Len(trace')]
               old == IF ev.name \in DOMAIN fields
                      THEN fields[ev.name].items ELSE <<>>
           IN  /\ DOMAIN fields' = DOMAIN fields \cup {ev.name}
               /\ fields'[ev.name].items =
                     Append(old, [value |-> ev.value,
                                  nameTruncated |-> ev.nameTruncated,
                                  valueTruncated |-> ev.valueTruncated,
                                  encoding |-> ev.encoding,
                                  mimeType |-> ev.mimeType])
               /\ \A n \in DOMAIN fields \ {ev.name} : fields'[n] = fields[n]
      ]_vars

\* C25 witness: a field with a truncated name recorded twice under one name
\* (the same event arguments twice) and a field with a truncated value.
C25_Witness ==
    \E n, k \in Names :
        /\ Len(FieldPartsIn(fields, n)) = 2
        /\ FieldPartsIn(fields, n)[1] = FieldPartsIn(fields, n)[2]
        /\ FieldPartsIn(fields, n)[1].nameTruncated
        /\ Len(FieldPartsIn(fields, k)) = 1
        /\ FieldPartsIn(fields, k)[1].valueTruncated

\* m holds a FieldPart under some name.
HasFieldPart(m) == \E n \in DOMAIN m : FieldPartsIn(m, n) # <<>>

\* C26: when fieldsLimit is emitted before any field event, and no stream
\* error, other limit event or handler failure came before it, parse() is
\* rejected with the fields-limit error, and the ResultSet holds no FieldPart
\* then or later, whatever field events follow.
C26_FieldsLimitBeforeAnyField ==
    \A i \in 1..Len(trace) :
        ( /\ IsEvent(trace[i], "fieldsLimit")
          /\ \A j \in 1..(i - 1) :
                /\ ~ IsEvent(trace[j], "field")
                /\ ~ IsLimit(trace[j])
                /\ ~ IsFailure(trace[j]) )
        => ( /\ promise = [state |-> "rejected", reason |-> FieldsLimitError]
             /\ ~ HasFieldPart(fields) )

\* C27: a stream error or a limit event changes nothing of the streams and
\* of the handlers in flight: it pipes none into the discard sink; a stream
\* is piped only by the step in which its own handler rejects.
C27_OnlyOwnRejectionDrains ==
    [][ /\ (Took(LAMBDA s : IsEvent(s, "error")) \/ Took(IsLimit))
           => (piped' = piped /\ pipedAt' = pipedAt /\ handlers' = handlers)
        /\ \A id \in piped' \ piped :
              /\ Took(LAMBDA s : IsFailure(s) /\ s.stream = id)
              /\ handlers[id] = "inflight"
      ]_vars

\* C27 witness: a stream error or a limit event failed the parse while two
\* handlers were in flight; one rejected afterwards and was drained, the
\* other is still in flight and untouched.
C27_Witness ==
    /\ settledAt > 0
    /\ IsEvent(trace[settledAt], "error") \/ IsLimit(trace[settledAt])
    /\ Cardinality(InFlightAfter(settledAt)) = 2
    /\ Cardinality(piped) = 1
    /\ Cardinality(InFlight) = 1

\* C28: parse() never writes this._limits: after any parse() calls, with
\* whatever overrides, the defaults are those the constructor stored, and a
\* parse() without overrides that follows a parse() with overrides builds its
\* wrapper with exactly those defaults.
C28_DefaultsNeverWritten ==
    /\ defaults = constructorLimits(ctorArg)
    /\ \A j \in 1..Len(calls) :
          Spread(calls[j].limits) = EmptyMap
          => wrappers[calls[j].returned].limits = constructorLimits(ctorArg)

\* C28 witness: a parse() that overrode a default key with another value,
\* then a parse() without overrides.
C28_Witness ==
    /\ Len(calls) = 2
    /\ \E k \in DOMAIN Spread(calls[1].limits) \cap DOMAIN defaults :
          Spread(calls[1].limits)[k] # defaults[k]
    /\ calls[2].limits = Undefined
    /\ wrappers[calls[2].returned].limits = defaults

\* C29: the first call of onEnd leaves none of the seven tokenizer listeners
\* attached, and none is attached again; a tokenizer event emitted afterwards
\* records no Part, invokes no handler, reaches no onEnd and changes nothing
\* of the outcome, and an 'error' among them finds no listener.
C29_NoTokenizerListenerAfterFirstOnEnd ==
    [][ /\ cleanupCalls' >= 1 => listeners' \cap TokenizerListeners = {}
        /\ (cleanupCalls >= 1 /\ Took(LAMBDA s : s.by = "tokenizer"))
           => ( /\ fields' = fields
                /\ handlers' = handlers
                /\ invocations' = invocations
                /\ promise' = promise
                /\ cleanupCalls' = cleanupCalls
                /\ settleCalls' = settleCalls
                /\ Took(LAMBDA s : IsEvent(s, "error")) => unhandledError' )
      ]_vars

\* C29 witness: after the first onEnd the tokenizer emitted a file event and
\* then an 'error', which nothing handled.
C29_Witness ==
    /\ cleanupCalls = 1
    /\ fileHandler
    /\ \E i, j \in (settledAt + 1)..Len(trace) :
          /\ i < j
          /\ IsEvent(trace[i], "file")
          /\ IsEvent(trace[j], "error")
    /\ unhandledError

\* C30: limits passed to the constructor replace the built-in defaults as a
\* whole: this._limits is the record passed, and a wrapper built by parse()
\* has files (fileSize) only when the constructor's record or the call's
\* limits specify it; a key both omit is unset, the built-in default is not
\* put back.
C30_ConstructorLimitsReplaceDefaults ==
    ctorArg # Undefined =>
        /\ defaults = ctorArg
        /\ \A j \in 1..Len(calls) :
              LET o == Spread(calls[j].limits)
                  l == wrappers[calls[j].returned].limits
              IN  \A k \in {"files", "fileSize"} :
                      /\ (k \notin DOMAIN ctorArg /\ k \notin DOMAIN o)
                         => k \notin DOMAIN l
                      /\ k \in DOMAIN o => (k \in DOMAIN l /\ l[k] = o[k])
                      /\ (k \in DOMAIN ctorArg /\ k \notin DOMAIN o)
                         => (k \in DOMAIN l /\ l[k] = ctorArg[k])

\* C30 witness: a body built with { files: 10 }; a parse() without limits
\* built a wrapper with no fileSize, a parse() that set fileSize one with it.
C30_Witness ==
    /\ ctorArg # Undefined
    /\ "fileSize" \notin DOMAIN ctorArg
    /\ Len(calls) = 2
    /\ calls[1].limits = Undefined
    /\ "fileSize" \notin DOMAIN wrappers[calls[1].returned].limits
    /\ "fileSize" \in DOMAIN Spread(calls[2].limits)
    /\ "fileSize" \in DOMAIN wrappers[calls[2].returned].limits

====
